---- MODULE Spec2Model ----
(***************************************************************************)
(* State-machine model of the rdex oracle pallet                           *)
(* (node/pallets/rdex/oracle/src/lib.rs): the four dispatchables           *)
(* submit_rtoken_price, submit_fis_price, set_period_block_number and      *)
(* set_data_reserve_period, acting on the storage items of the             *)
(* rdex_token_price pallet.                                                *)
(*                                                                         *)
(* A storage map is a function whose DOMAIN is the set of keys present;    *)
(* insert is Put, remove is Remove, get(..).is_none() is a domain test.    *)
(* An Option storage value is a set with at most one element.              *)
(***************************************************************************)
EXTENDS Integers, Sequences, FiniteSets, TLC

\* ------------------------------------------------------------------ bounds
\* number of accepted calls explored from the initial state
MaxOps == 3
\* PeriodVersion is advanced at most this far
MaxVersion == 1

\* ------------------------------------------------------------ value domains
Root == <<"Root">>
Signed(who) == <<"Signed", who>>
Requestors == {"alice", "bob"}
Outsider == "eve"
Accounts == Requestors \cup {Outsider}
Origins == {Root} \cup {Signed(who) : who \in Accounts}
RSymbols == {"RFIS", "RDOT"}
Periods == {0, 1, 2}
Prices == {0, 1, 2}
BlockNumbers == {0, 1}
ReservePeriods == {0, 1, 2}
Thresholds == {1, 2}

VARIABLES
    accountRTokenPrices,  \* AccountRTokenPrices: (who, symbol, version, period) -> price
    rTokenPrices,         \* RTokenPrices: (symbol, version, period) -> Vec<price>
    currentRTokenPrice,   \* CurrentRTokenPrice: symbol -> price
    hisRTokenPrice,       \* HisRTokenPrice: (symbol, version, period) -> price
    accountFisPrices,     \* AccountFisPrices: (who, version, period) -> price
    fisPrices,            \* FisPrices: (version, period) -> Vec<price>
    currentFisPrice,      \* CurrentFisPrice: {} until the first put, then {price}
    hisFisPrice,          \* HisFisPrice: (version, period) -> price
    periodVersion,        \* PeriodVersion
    periodBlockNumber,    \* PeriodBlockNumber
    dataReservePeriod,    \* DataReservePeriod
    requestorThreshold,   \* requestor::RequestorThreshold
    events,               \* events deposited by the last dispatched call
    result,               \* the last dispatched call and its DispatchResult
    accepted,             \* history: every (who, symbol, version, period) whose
                          \* submission returned Ok(()); "FIS" stands for the fis flow
    ops                   \* history: number of calls that returned Ok(())

rtokenStore == <<accountRTokenPrices, rTokenPrices, currentRTokenPrice, hisRTokenPrice>>
fisStore == <<accountFisPrices, fisPrices, currentFisPrice, hisFisPrice>>
config == <<periodVersion, periodBlockNumber, dataReservePeriod, requestorThreshold>>
storage == <<rtokenStore, fisStore, config>>
vars == <<storage, events, result, accepted, ops>>

\* --------------------------------------------------------- storage helpers
EmptyMap == [x \in {} |-> 0]
\* an insert that keeps the value of a key already present
PutIfAbsent(f, k, v) == [x \in DOMAIN f \cup {k} |-> IF x \in DOMAIN f THEN f[x] ELSE v]
Put(f, k, v) == [x \in DOMAIN f \cup {k} |-> IF x = k THEN v ELSE f[x]]
\* removal of every key that differs from k in its first component at most
RemoveAllReporters(f, k) == [x \in {y \in DOMAIN f : Tail(y) # Tail(k)} |-> f[x]]
Remove(f, k) == [x \in DOMAIN f \ {k} |-> f[x]]
GetOr(f, k, d) == IF k \in DOMAIN f THEN f[k] ELSE d

\* ------------------------------------------------------------ pure helpers
\* requestor::Module::<T>::is_requestor(&who)
is_requestor(who) == who \in Requestors

\* ensure!(price > u128::MIN, ..)
PriceAcceptedAlways(price) == TRUE
PricePositive(price) == price > 0

\* ensure!(block_number > u32::MIN, ..) / ensure!(reserve_period > u32::MIN, ..)
ParamAcceptedAlways(n) == TRUE
ParamPositive(n) == n > 0

\* prices.len() == requestor::RequestorThreshold::get() as usize
ThresholdPassed(prices) == Len(prices) > requestorThreshold
ThresholdAtLeast(prices) == Len(prices) >= requestorThreshold
ThresholdReached(prices) == Len(prices) = requestorThreshold

\* insertion of x into a sequence already sorted in descending order
RECURSIVE InsertDesc(_, _)
InsertDesc(s, x) ==
    IF s = <<>> THEN <<x>>
    ELSE IF x > Head(s) THEN <<x>> \o s
    ELSE <<Head(s)>> \o InsertDesc(Tail(s), x)

RECURSIVE InsertAsc(_, _)
InsertAsc(s, x) ==
    IF s = <<>> THEN <<x>>
    ELSE IF x < Head(s) THEN <<x>> \o s
    ELSE <<Head(s)>> \o InsertAsc(Tail(s), x)

RECURSIVE SortAsc(_)
SortAsc(prices) ==
    IF prices = <<>> THEN <<>>
    ELSE InsertAsc(SortAsc(Tail(prices)), Head(prices))

\* prices.sort_by(|a, b| b.cmp(a))
RECURSIVE SortDesc(_)
SortDesc(prices) ==
    IF prices = <<>> THEN <<>>
    ELSE InsertDesc(SortDesc(Tail(prices)), Head(prices))

\* prices.get(prices.len() / 2).unwrap_or(&u128::MIN), on the sorted vector
\* (Rust indexes from 0, a TLA+ sequence from 1)
WillUsePastEnd(sorted) ==
    LET i == Len(sorted)
    IN IF i < Len(sorted) THEN sorted[i + 1] ELSE 0
WillUsePrice(sorted) ==
    LET i == Len(sorted) \div 2
    IN IF i < Len(sorted) THEN sorted[i + 1] ELSE 0

\* period > data_reserve_period
PurgeNever(period) == FALSE
PurgeAlways(period) == TRUE
PurgeDue(period) == period > dataReservePeriod

\* period - data_reserve_period
StaleSamePeriod(period) == period
StalePeriod(period) == period - dataReservePeriod

\* PeriodVersion::mutate(|i| *i += 1)
VersionKept(i) == i
NextVersion(i) == i + 1

\* CurrentRTokenPrice::insert(symbol, ..): the slot written for a symbol
SharedSlot(symbol) == "RFIS"
CurrentSlot(symbol) == symbol

\* FisPrices / HisFisPrice key (period_version, period)
FisKeySwapped(version, period) == <<period, version>>
FisKey(version, period) == <<version, period>>

\* ------------------------------------------------------------------- events
RTokenPriceEnough(symbol, version, period, price) ==
    <<"RTokenPriceEnough", symbol, version, period, price>>
SubmitRtokenPrice(who, symbol, version, period, price) ==
    <<"SubmitRtokenPrice", who, symbol, version, period, price>>
FisPriceEnough(version, period, price) ==
    <<"FisPriceEnough", version, period, price>>
SubmitFisPrice(who, version, period, price) ==
    <<"SubmitFisPrice", who, version, period, price>>
PeriodBlockNumberChanged(version, block_number) ==
    <<"PeriodBlockNumberChanged", version, block_number>>

\* a call that returns Err before any write: nothing stored, nothing deposited
Reject(call, err) ==
    /\ result' = [call |-> call, ret |-> err]
    /\ events' = <<>>
    /\ UNCHANGED <<storage, accepted, ops>>

Accept(call, evs) ==
    /\ result' = [call |-> call, ret |-> "Ok"]
    /\ events' = evs
    /\ ops' = ops + 1

\* --------------------------------------------------------------------- Init
Init ==
    /\ accountRTokenPrices = EmptyMap
    /\ rTokenPrices = EmptyMap
    /\ currentRTokenPrice = EmptyMap
    /\ hisRTokenPrice = EmptyMap
    /\ accountFisPrices = EmptyMap
    /\ fisPrices = EmptyMap
    /\ currentFisPrice = {}
    /\ hisFisPrice = EmptyMap
    /\ periodVersion = 0
    /\ periodBlockNumber = 1
    /\ dataReservePeriod = 1
    /\ requestorThreshold \in Thresholds
    /\ events = <<>>
    /\ result = [call |-> "none", ret |-> "Ok"]
    /\ accepted = {}
    /\ ops = 0

\* ------------------------------------------------------------------- checks
\* what the checks made before the first write return: the error of the first
\* ensure that fails, or "Ok"
submit_rtoken_price_check_price_first(origin, symbol, period, price) ==
    IF origin = Root THEN "BadOrigin"
    ELSE IF ~is_requestor(origin[2]) THEN "MustBeRequestor"
    ELSE IF ~PricePositive(price) THEN "ParamsErr"
    ELSE IF <<origin[2], symbol, periodVersion, period>> \in DOMAIN accountRTokenPrices
         THEN "PriceRepeated"
    ELSE "Ok"

submit_rtoken_price_check(origin, symbol, period, price) ==
    IF origin = Root THEN "BadOrigin"
    ELSE IF ~is_requestor(origin[2]) THEN "MustBeRequestor"
    ELSE IF <<origin[2], symbol, periodVersion, period>> \in DOMAIN accountRTokenPrices
         THEN "PriceRepeated"
    ELSE IF ~PricePositive(price) THEN "ParamsErr"
    ELSE "Ok"

submit_fis_price_check(origin, period, price) ==
    IF origin = Root THEN "BadOrigin"
    ELSE IF ~is_requestor(origin[2]) THEN "MustBeRequestor"
    ELSE IF <<origin[2], periodVersion, period>> \in DOMAIN accountFisPrices
         THEN "PriceRepeated"
    ELSE IF ~PricePositive(price) THEN "ParamsErr"
    ELSE "Ok"

set_period_block_number_check(origin, block_number) ==
    IF origin # Root THEN "BadOrigin"
    ELSE IF ~ParamPositive(block_number) THEN "ParamsErr"
    ELSE "Ok"

set_data_reserve_period_check(origin, reserve_period) ==
    IF origin # Root THEN "BadOrigin"
    ELSE IF ~ParamPositive(reserve_period) THEN "ParamsErr"
    ELSE "Ok"

\* ------------------------------------------------------------------ actions
submit_rtoken_price(origin, symbol, period, price) ==
    LET call == "submit_rtoken_price"
        check == submit_rtoken_price_check(origin, symbol, period, price)
        who == origin[2]
        period_version == periodVersion
        key == <<symbol, period_version, period>>
        akey == <<who, symbol, period_version, period>>
        prices == Append(GetOr(rTokenPrices, key, <<>>), price)
        prices1 == Put(rTokenPrices, key, prices)
        account1 == Put(accountRTokenPrices, akey, price)
        will_use_price == WillUsePrice(SortDesc(prices))
        stale == <<symbol, period_version, StalePeriod(period)>>
        astale == <<who, symbol, period_version, StalePeriod(period)>>
    IN
    /\ IF check # "Ok" THEN Reject(call, check)
       ELSE IF ~ThresholdReached(prices) THEN
            /\ rTokenPrices' = prices1
            /\ accountRTokenPrices' = account1
            /\ UNCHANGED <<currentRTokenPrice, hisRTokenPrice, fisStore, config>>
            /\ accepted' = accepted \cup {akey}
            /\ Accept(call, <<SubmitRtokenPrice(who, symbol, period_version, period, price)>>)
       ELSE IF ~(will_use_price > 0) THEN
            \* the error is returned after the two inserts of lines 66-67
            /\ rTokenPrices' = prices1
            /\ accountRTokenPrices' = account1
            /\ UNCHANGED <<currentRTokenPrice, hisRTokenPrice, fisStore, config, accepted, ops>>
            /\ result' = [call |-> call, ret |-> "PriceZero"]
            /\ events' = <<>>
       ELSE
            /\ currentRTokenPrice' = Put(currentRTokenPrice, CurrentSlot(symbol), will_use_price)
            /\ hisRTokenPrice' = Put(hisRTokenPrice, key, will_use_price)
            /\ IF PurgeDue(period)
               THEN /\ rTokenPrices' = Remove(prices1, stale)
                    /\ accountRTokenPrices' = Remove(account1, astale)
               ELSE /\ rTokenPrices' = prices1
                    /\ accountRTokenPrices' = account1
            /\ UNCHANGED <<fisStore, config>>
            /\ accepted' = accepted \cup {akey}
            /\ Accept(call, <<RTokenPriceEnough(symbol, period_version, period, will_use_price),
                              SubmitRtokenPrice(who, symbol, period_version, period, price)>>)

submit_fis_price(origin, period, price) ==
    LET call == "submit_fis_price"
        check == submit_fis_price_check(origin, period, price)
        who == origin[2]
        period_version == periodVersion
        key == FisKey(period_version, period)
        akey == <<who, period_version, period>>
        prices == Append(GetOr(fisPrices, key, <<>>), price)
        prices1 == Put(fisPrices, key, prices)
        account1 == Put(accountFisPrices, akey, price)
        will_use_price == WillUsePrice(SortDesc(prices))
        stale == <<period_version, StalePeriod(period)>>
        astale == <<who, period_version, StalePeriod(period)>>
    IN
    /\ IF check # "Ok" THEN Reject(call, check)
       ELSE IF ~ThresholdReached(prices) THEN
            /\ fisPrices' = prices1
            /\ accountFisPrices' = account1
            /\ UNCHANGED <<currentFisPrice, hisFisPrice, rtokenStore, config>>
            /\ accepted' = accepted \cup {<<who, "FIS", period_version, period>>}
            /\ Accept(call, <<SubmitFisPrice(who, period_version, period, price)>>)
       ELSE IF ~(will_use_price > 0) THEN
            \* the error is returned after the two inserts of lines 101-102
            /\ fisPrices' = prices1
            /\ accountFisPrices' = account1
            /\ UNCHANGED <<currentFisPrice, hisFisPrice, rtokenStore, config, accepted, ops>>
            /\ result' = [call |-> call, ret |-> "PriceZero"]
            /\ events' = <<>>
       ELSE
            /\ currentFisPrice' = {will_use_price}
            /\ hisFisPrice' = Put(hisFisPrice, key, will_use_price)
            /\ IF PurgeDue(period)
               THEN /\ fisPrices' = Remove(prices1, stale)
                    /\ accountFisPrices' = Remove(account1, astale)
               ELSE /\ fisPrices' = prices1
                    /\ accountFisPrices' = account1
            /\ UNCHANGED <<rtokenStore, config>>
            /\ accepted' = accepted \cup {<<who, "FIS", period_version, period>>}
            /\ Accept(call, <<FisPriceEnough(period_version, period, will_use_price),
                              SubmitFisPrice(who, period_version, period, price)>>)

set_period_block_number(origin, block_number) ==
    LET call == "set_period_block_number"
        check == set_period_block_number_check(origin, block_number)
    IN
    /\ IF check # "Ok" THEN Reject(call, check)
       ELSE /\ periodVersion < MaxVersion
            /\ periodBlockNumber' = block_number
            /\ periodVersion' = NextVersion(periodVersion)
            /\ UNCHANGED <<rtokenStore, fisStore, dataReservePeriod, requestorThreshold,
                           accepted>>
            /\ Accept(call, <<PeriodBlockNumberChanged(periodVersion', block_number)>>)

set_data_reserve_period(origin, reserve_period) ==
    LET call == "set_data_reserve_period"
        check == set_data_reserve_period_check(origin, reserve_period)
    IN
    /\ IF check # "Ok" THEN Reject(call, check)
       ELSE /\ dataReservePeriod' = reserve_period
            /\ UNCHANGED <<rtokenStore, fisStore, periodVersion, periodBlockNumber,
                           requestorThreshold, accepted>>
            /\ Accept(call, <<>>)

\* ------------------------------------------------------------------ effects
\* the storage items of each flow as one value
RTokenStore ==
    [account |-> accountRTokenPrices, prices |-> rTokenPrices,
     current |-> currentRTokenPrice, his |-> hisRTokenPrice]
FisStore ==
    [account |-> accountFisPrices, prices |-> fisPrices,
     current |-> currentFisPrice, his |-> hisFisPrice]

\* submit_rtoken_price run on the rtoken storage st (PeriodVersion,
\* RequestorThreshold and DataReservePeriod as in the current state): the
\* storage it leaves, the DispatchResult and the events deposited
submit_rtoken_price_on(st, origin, symbol, period, price) ==
    LET who == origin[2]
        period_version == periodVersion
        key == <<symbol, period_version, period>>
        akey == <<who, symbol, period_version, period>>
        prices == Append(GetOr(st.prices, key, <<>>), price)
        prices1 == Put(st.prices, key, prices)
        account1 == Put(st.account, akey, price)
        will_use_price == WillUsePrice(SortDesc(prices))
        stale == <<symbol, period_version, StalePeriod(period)>>
        astale == <<who, symbol, period_version, StalePeriod(period)>>
        err(e) == [store |-> st, ret |-> e, events |-> <<>>]
    IN
    IF origin = Root THEN err("BadOrigin")
    ELSE IF ~is_requestor(who) THEN err("MustBeRequestor")
    ELSE IF akey \in DOMAIN st.account THEN err("PriceRepeated")
    ELSE IF ~PricePositive(price) THEN err("ParamsErr")
    ELSE IF ~ThresholdReached(prices) THEN
        [store |-> [st EXCEPT !.prices = prices1, !.account = account1],
         ret |-> "Ok",
         events |-> <<SubmitRtokenPrice(who, symbol, period_version, period, price)>>]
    ELSE IF ~(will_use_price > 0) THEN
        [store |-> [st EXCEPT !.prices = prices1, !.account = account1],
         ret |-> "PriceZero",
         events |-> <<>>]
    ELSE
        [store |-> [prices |-> IF PurgeDue(period) THEN Remove(prices1, stale) ELSE prices1,
                    account |-> IF PurgeDue(period) THEN Remove(account1, astale) ELSE account1,
                    current |-> Put(st.current, CurrentSlot(symbol), will_use_price),
                    his |-> Put(st.his, key, will_use_price)],
         ret |-> "Ok",
         events |-> <<RTokenPriceEnough(symbol, period_version, period, will_use_price),
                      SubmitRtokenPrice(who, symbol, period_version, period, price)>>]

\* submit_fis_price run on the fis storage st
submit_fis_price_on(st, origin, period, price) ==
    LET who == origin[2]
        period_version == periodVersion
        key == FisKey(period_version, period)
        akey == <<who, period_version, period>>
        prices == Append(GetOr(st.prices, key, <<>>), price)
        prices1 == Put(st.prices, key, prices)
        account1 == Put(st.account, akey, price)
        will_use_price == WillUsePrice(SortDesc(prices))
        stale == <<period_version, StalePeriod(period)>>
        astale == <<who, period_version, StalePeriod(period)>>
        err(e) == [store |-> st, ret |-> e, events |-> <<>>]
    IN
    IF origin = Root THEN err("BadOrigin")
    ELSE IF ~is_requestor(who) THEN err("MustBeRequestor")
    ELSE IF akey \in DOMAIN st.account THEN err("PriceRepeated")
    ELSE IF ~PricePositive(price) THEN err("ParamsErr")
    ELSE IF ~ThresholdReached(prices) THEN
        [store |-> [st EXCEPT !.prices = prices1, !.account = account1],
         ret |-> "Ok",
         events |-> <<SubmitFisPrice(who, period_version, period, price)>>]
    ELSE IF ~(will_use_price > 0) THEN
        [store |-> [st EXCEPT !.prices = prices1, !.account = account1],
         ret |-> "PriceZero",
         events |-> <<>>]
    ELSE
        [store |-> [prices |-> IF PurgeDue(period) THEN Remove(prices1, stale) ELSE prices1,
                    account |-> IF PurgeDue(period) THEN Remove(account1, astale) ELSE account1,
                    current |-> {will_use_price},
                    his |-> Put(st.his, key, will_use_price)],
         ret |-> "Ok",
         events |-> <<FisPriceEnough(period_version, period, will_use_price),
                      SubmitFisPrice(who, period_version, period, price)>>]

\* ------------------------------------------------------------ specification
\* A rejected call stores nothing, so the calls that can follow it are exactly
\* those that can follow the state it was made in: the rejection is recorded
\* in result/events, and further calls are explored from the states reached
\* by accepted calls, at most cap of them.
CanDispatch(cap) == ops < cap /\ result.ret = "Ok"

Next ==
    \/ /\ CanDispatch(MaxOps)
       /\ \E origin \in Origins, symbol \in RSymbols, period \in Periods, price \in Prices :
             submit_rtoken_price(origin, symbol, period, price)
    \/ /\ CanDispatch(MaxOps)
       /\ \E origin \in Origins, period \in Periods, price \in Prices :
             submit_fis_price(origin, period, price)
    \/ /\ CanDispatch(MaxOps)
       /\ \E origin \in Origins, block_number \in BlockNumbers :
             set_period_block_number(origin, block_number)
    \/ /\ CanDispatch(MaxOps)
       /\ \E origin \in Origins, reserve_period \in ReservePeriods :
             set_data_reserve_period(origin, reserve_period)

Spec == Init /\ [][Next]_vars

\* the same calls on one rtoken symbol and one positive price, one accepted
\* call deeper
DeepSymbols == {"RFIS"}
DeepPrices == {0, 1}

NextDeep ==
    \/ /\ CanDispatch(MaxOps + 1)
       /\ \E origin \in Origins, symbol \in DeepSymbols, period \in Periods, price \in DeepPrices :
             submit_rtoken_price(origin, symbol, period, price)
    \/ /\ CanDispatch(MaxOps + 1)
       /\ \E origin \in Origins, period \in Periods, price \in DeepPrices :
             submit_fis_price(origin, period, price)
    \/ /\ CanDispatch(MaxOps + 1)
       /\ \E origin \in Origins, block_number \in BlockNumbers :
             set_period_block_number(origin, block_number)
    \/ /\ CanDispatch(MaxOps + 1)
       /\ \E origin \in Origins, reserve_period \in ReservePeriods :
             set_data_reserve_period(origin, reserve_period)

SpecDeep == Init /\ [][NextDeep]_vars

\* the same calls over periods 1 and 2 and prices 0 and 1, one accepted call
\* fewer
PairPeriods == {1, 2}

NextPair ==
    \/ /\ CanDispatch(MaxOps - 1)
       /\ \E origin \in Origins, symbol \in RSymbols, period \in PairPeriods, price \in DeepPrices :
             submit_rtoken_price(origin, symbol, period, price)
    \/ /\ CanDispatch(MaxOps - 1)
       /\ \E origin \in Origins, period \in PairPeriods, price \in DeepPrices :
             submit_fis_price(origin, period, price)
    \/ /\ CanDispatch(MaxOps - 1)
       /\ \E origin \in Origins, block_number \in BlockNumbers :
             set_period_block_number(origin, block_number)
    \/ /\ CanDispatch(MaxOps - 1)
       /\ \E origin \in Origins, reserve_period \in ReservePeriods :
             set_data_reserve_period(origin, reserve_period)

SpecPair == Init /\ [][NextPair]_vars

\* ------------------------------------------------- vocabulary of the claims
RTokenKeys == RSymbols \X (0..MaxVersion) \X Periods
FisKeys == (0..MaxVersion) \X Periods

\* the events of one kind among those deposited by the step into the next state
Deposited(evs, kind) == {evs[i] : i \in {j \in DOMAIN evs : evs[j][1] = kind}}

\* number of per-reporter records stored for a bucket key
RTokenRecords(key) ==
    Cardinality({who \in Accounts : <<who, key[1], key[2], key[3]>> \in DOMAIN accountRTokenPrices})
FisRecords(key) ==
    Cardinality({who \in Accounts : <<who, key[1], key[2]>> \in DOMAIN accountFisPrices})

\* -------------------------------------------------------------------- C1
\* C1: each BucketKey is finalized at most once.  A finalization writes
\* HisRTokenPrice[key] (HisFisPrice[key]) and no call removes an entry of
\* these maps, so a key has been finalized before exactly when its entry is
\* present: no step deposits RTokenPriceEnough / FisPriceEnough for a key
\* whose historical entry is already present.
C1_FinalizedAtMostOnce ==
    [][ /\ \A e \in Deposited(events', "RTokenPriceEnough") :
             <<e[2], e[3], e[4]>> \notin DOMAIN hisRTokenPrice
        /\ \A e \in Deposited(events', "FisPriceEnough") :
             <<e[2], e[3]>> \notin DOMAIN hisFisPrice ]_vars

\* -------------------------------------------------------------------- C2
\* C2: HistoricalPrice entries are immutable: an entry that is present stays
\* present with the same value over every step.
C2_HistoricalImmutable ==
    [][ /\ \A k \in DOMAIN hisRTokenPrice :
             k \in DOMAIN hisRTokenPrice' /\ hisRTokenPrice'[k] = hisRTokenPrice[k]
        /\ \A k \in DOMAIN hisFisPrice :
             k \in DOMAIN hisFisPrice' /\ hisFisPrice'[k] = hisFisPrice[k] ]_vars

\* -------------------------------------------------------------------- C3
\* the price of rank floor(n/2) among n values, counted from the largest:
\* at most floor(n/2) values are larger and more than floor(n/2) are at least
\* as large
IsRankPick(m, vals) ==
    LET n == Len(vals)
        larger == Cardinality({i \in DOMAIN vals : vals[i] > m})
        atLeast == Cardinality({i \in DOMAIN vals : vals[i] >= m})
    IN /\ \E i \in DOMAIN vals : vals[i] = m
       /\ larger <= n \div 2
       /\ n \div 2 < atLeast

\* every order in which the values of vals can be submitted
Orders(vals) ==
    {[i \in DOMAIN vals |-> vals[f[i]]] :
        f \in {g \in [DOMAIN vals -> DOMAIN vals] : \A i, j \in DOMAIN vals : g[i] = g[j] => i = j}}

\* C3: median rule.  The examples of the specification give 150 and 20 in
\* every submission order, and on every step that finalizes a bucket the
\* price written is the rank pick at floor(n/2) of the n = threshold values
\* stored for the bucket, which depends on the values only, not on their order.
C3_MedianRule ==
    /\ \A vals \in Orders(<<100, 200, 150>>) : WillUsePrice(SortDesc(vals)) = 150
    /\ \A vals \in Orders(<<10, 20, 30, 40>>) : WillUsePrice(SortDesc(vals)) = 20
    /\ [][ /\ \A e \in Deposited(events', "RTokenPriceEnough") :
                LET key == <<e[2], e[3], e[4]>> IN
                /\ key \in DOMAIN rTokenPrices'
                /\ Len(rTokenPrices'[key]) = requestorThreshold
                /\ IsRankPick(e[5], rTokenPrices'[key])
                /\ hisRTokenPrice'[key] = e[5]
                /\ currentRTokenPrice'[e[2]] = e[5]
           /\ \A e \in Deposited(events', "FisPriceEnough") :
                LET key == <<e[2], e[3]>> IN
                /\ key \in DOMAIN fisPrices'
                /\ Len(fisPrices'[key]) = requestorThreshold
                /\ IsRankPick(e[4], fisPrices'[key])
                /\ hisFisPrice'[key] = e[4]
                /\ currentFisPrice' = {e[4]} ]_vars

\* a bucket was just finalized from two different prices submitted in
\* ascending order, and the smaller one (index 1 of the descending order) was
\* written
C3_Witness ==
    \E e \in Deposited(events, "RTokenPriceEnough") :
        /\ rTokenPrices[<<e[2], e[3], e[4]>>] = <<1, 2>>
        /\ hisRTokenPrice[<<e[2], e[3], e[4]>>] = 1

\* -------------------------------------------------------------------- C4
\* C4: quorum completeness: whenever the per-reporter records stored for a
\* key number at least the quorum threshold, the key's historical price is
\* present.
C4_QuorumCompleteness ==
    /\ \A key \in RTokenKeys :
          RTokenRecords(key) >= requestorThreshold => key \in DOMAIN hisRTokenPrice
    /\ \A key \in FisKeys :
          FisRecords(key) >= requestorThreshold => key \in DOMAIN hisFisPrice

\* -------------------------------------------------------------------- C5
\* a call that returned an error before its first write stored nothing and
\* deposited nothing
RejectedStoresNothing ==
    result'.ret \notin {"Ok", "PriceZero"} => (events' = <<>> /\ UNCHANGED storage)

\* C5: a reporter contributes at most one price per BucketKey: once a
\* submission of a reporter to a key has been accepted, every further
\* submission of that reporter to that key (any price) is refused with
\* PriceRepeated, and the refused call stores nothing.
C5_OneSubmissionPerReporter ==
    [][ /\ RejectedStoresNothing
        /\ \A a \in accepted' :
             a[3] = periodVersion' =>
                \A price \in Prices :
                   IF a[2] = "FIS"
                   THEN (submit_fis_price_check(Signed(a[1]), a[4], price))' = "PriceRepeated"
                   ELSE (submit_rtoken_price_check(Signed(a[1]), a[2], a[4], price))'
                           = "PriceRepeated" ]_vars

\* -------------------------------------------------------------------- C6
\* every price held in a bucket value list or in a per-reporter record is > 0
AllStoredPositive ==
    /\ \A k \in DOMAIN rTokenPrices : \A i \in DOMAIN rTokenPrices[k] : rTokenPrices[k][i] > 0
    /\ \A k \in DOMAIN accountRTokenPrices : accountRTokenPrices[k] > 0
    /\ \A k \in DOMAIN fisPrices : \A i \in DOMAIN fisPrices[k] : fisPrices[k][i] > 0
    /\ \A k \in DOMAIN accountFisPrices : accountFisPrices[k] > 0

\* a price of 0 from an authorized reporter without a record for the key is
\* refused with ParamsErr
ZeroPriceRefused ==
    /\ \A who \in Requestors, symbol \in RSymbols, period \in Periods :
          <<who, symbol, periodVersion, period>> \notin DOMAIN accountRTokenPrices
          => submit_rtoken_price_check(Signed(who), symbol, period, 0) = "ParamsErr"
    /\ \A who \in Requestors, period \in Periods :
          <<who, periodVersion, period>> \notin DOMAIN accountFisPrices
          => submit_fis_price_check(Signed(who), period, 0) = "ParamsErr"

\* C6: a submission of price 0 by an authorized reporter that has no record
\* for the key is rejected with ParamsErr, stores nothing and deposits no
\* event; and every price stored in a value list or a per-reporter record is
\* strictly positive.
C6_ZeroPriceRejected ==
    /\ AllStoredPositive /\ ZeroPriceRefused
    /\ [][ /\ result'.ret = "ParamsErr" => (events' = <<>> /\ UNCHANGED storage)
           /\ result'.ret = "Ok" => (AllStoredPositive' /\ ZeroPriceRefused') ]_vars

\* a price of 0 was just rejected while prices were already stored
C6_Witness ==
    /\ result = [call |-> "submit_rtoken_price", ret |-> "ParamsErr"]
    /\ DOMAIN rTokenPrices # {}
    /\ DOMAIN accountFisPrices # {}

\* -------------------------------------------------------------------- C7
\* C7: an accepted submission that brings its bucket to a count other than
\* the threshold is recorded (price appended, per-reporter record written,
\* Submit event deposited alone) and leaves the current and historical
\* prices, every other bucket and every other record as they were.
C7_InertSubmission ==
    [][ /\ \A e \in Deposited(events', "SubmitRtokenPrice") :
             LET key == <<e[3], e[4], e[5]>>
                 akey == <<e[2], e[3], e[4], e[5]>>
                 old == GetOr(rTokenPrices, key, <<>>)
             IN Len(old) + 1 # requestorThreshold
                => /\ rTokenPrices' = Put(rTokenPrices, key, Append(old, e[6]))
                   /\ accountRTokenPrices' = Put(accountRTokenPrices, akey, e[6])
                   /\ events' = <<e>>
                   /\ UNCHANGED <<currentRTokenPrice, hisRTokenPrice, fisStore, config>>
        /\ \A e \in Deposited(events', "SubmitFisPrice") :
             LET key == <<e[3], e[4]>>
                 akey == <<e[2], e[3], e[4]>>
                 old == GetOr(fisPrices, key, <<>>)
             IN Len(old) + 1 # requestorThreshold
                => /\ fisPrices' = Put(fisPrices, key, Append(old, e[5]))
                   /\ accountFisPrices' = Put(accountFisPrices, akey, e[5])
                   /\ events' = <<e>>
                   /\ UNCHANGED <<currentFisPrice, hisFisPrice, rtokenStore, config>> ]_vars

\* a late submission was just recorded in a bucket that is already finalized
\* and now holds more values than the threshold
C7_Witness ==
    /\ Len(events) = 1
    /\ \E e \in Deposited(events, "SubmitRtokenPrice") :
          /\ <<e[3], e[4], e[5]>> \in DOMAIN hisRTokenPrice
          /\ Len(rTokenPrices[<<e[3], e[4], e[5]>>]) > requestorThreshold

C9_AdminParams ==
    /\ \A origin \in Origins, block_number \in BlockNumbers :
          LET check == set_period_block_number_check(origin, block_number) IN
          /\ origin # Root => check \notin {"Ok"}
          /\ (origin = Root /\ block_number = 0) => check = "ParamsErr"
    /\ \A origin \in Origins, reserve_period \in ReservePeriods :
          LET check == set_data_reserve_period_check(origin, reserve_period) IN
          /\ origin # Root => check \notin {"Ok"}
          /\ (origin = Root /\ reserve_period = 0) => check = "ParamsErr"
    /\ [][ /\ ( /\ result'.call \in {"set_period_block_number", "set_data_reserve_period"}
                /\ result'.ret # "Ok" )
                => (events' = <<>> /\ UNCHANGED storage)
           /\ result' = [call |-> "set_data_reserve_period", ret |-> "Ok"]
                => /\ events' = <<>>
                   /\ UNCHANGED <<rtokenStore, fisStore, periodVersion, periodBlockNumber,
                                  requestorThreshold>>
                   /\ \A reserve_period \in ReservePeriods :
                         set_data_reserve_period(Root, reserve_period)
                         => dataReservePeriod' = reserve_period ]_vars

\* a reserve period of 0 was just refused after the version had been advanced
\* and prices stored
C9_Witness ==
    /\ result = [call |-> "set_data_reserve_period", ret |-> "ParamsErr"]
    /\ periodVersion = 1
    /\ DOMAIN rTokenPrices # {}

\* ------------------------------------------------------------------- C10
\* C10: a submission for (symbol, version, period p) under DataReservePeriod W
\* removes value lists and per-reporter records of the key
\* (symbol, version, p - W) only, and only when p > W; every other list and
\* record keeps its value, the bucket just touched stays, and no current or
\* historical price is removed or, apart from the entries the finalization
\* of the touched key itself writes, changed.
C10_PurgeScope ==
    [][ /\ \A e \in Deposited(events', "SubmitRtokenPrice") :
             LET symbol == e[3]
                 version == e[4]
                 period == e[5]
                 key == <<symbol, version, period>>
                 akey == <<e[2], symbol, version, period>>
                 stalePeriod == period - dataReservePeriod
                 removedLists == DOMAIN rTokenPrices \ DOMAIN rTokenPrices'
                 removedRecords == DOMAIN accountRTokenPrices \ DOMAIN accountRTokenPrices'
             IN /\ removedLists \subseteq {<<symbol, version, stalePeriod>>}
                /\ removedRecords \subseteq {<<who, symbol, version, stalePeriod>> : who \in Accounts}
                /\ (removedLists # {} \/ removedRecords # {}) => period > dataReservePeriod
                /\ key \in DOMAIN rTokenPrices' /\ akey \in DOMAIN accountRTokenPrices'
                /\ \A k \in DOMAIN rTokenPrices' \ {key} :
                      k \in DOMAIN rTokenPrices /\ rTokenPrices'[k] = rTokenPrices[k]
                /\ \A k \in DOMAIN accountRTokenPrices' \ {akey} :
                      k \in DOMAIN accountRTokenPrices
                      /\ accountRTokenPrices'[k] = accountRTokenPrices[k]
                /\ DOMAIN hisRTokenPrice \subseteq DOMAIN hisRTokenPrice'
                /\ \A k \in DOMAIN hisRTokenPrice \ {key} : hisRTokenPrice'[k] = hisRTokenPrice[k]
                /\ DOMAIN currentRTokenPrice \subseteq DOMAIN currentRTokenPrice'
                /\ \A x \in DOMAIN currentRTokenPrice \ {symbol} :
                      currentRTokenPrice'[x] = currentRTokenPrice[x]
                /\ UNCHANGED fisStore
        /\ \A e \in Deposited(events', "SubmitFisPrice") :
             LET version == e[3]
                 period == e[4]
                 key == <<version, period>>
                 akey == <<e[2], version, period>>
                 stalePeriod == period - dataReservePeriod
                 removedLists == DOMAIN fisPrices \ DOMAIN fisPrices'
                 removedRecords == DOMAIN accountFisPrices \ DOMAIN accountFisPrices'
             IN /\ removedLists \subseteq {<<version, stalePeriod>>}
                /\ removedRecords \subseteq {<<who, version, stalePeriod>> : who \in Accounts}
                /\ (removedLists # {} \/ removedRecords # {}) => period > dataReservePeriod
                /\ key \in DOMAIN fisPrices' /\ akey \in DOMAIN accountFisPrices'
                /\ \A k \in DOMAIN fisPrices' \ {key} :
                      k \in DOMAIN fisPrices /\ fisPrices'[k] = fisPrices[k]
                /\ \A k \in DOMAIN accountFisPrices' \ {akey} :
                      k \in DOMAIN accountFisPrices /\ accountFisPrices'[k] = accountFisPrices[k]
                /\ DOMAIN hisFisPrice \subseteq DOMAIN hisFisPrice'
                /\ \A k \in DOMAIN hisFisPrice \ {key} : hisFisPrice'[k] = hisFisPrice[k]
                /\ currentFisPrice # {} => currentFisPrice' # {}
                /\ UNCHANGED rtokenStore ]_vars

\* a finalization at period p > W just purged the list of (symbol, version,
\* p - W), whose historical price is still there, while the bucket of another
\* symbol at the purged period is still stored
C10_Witness ==
    \E e \in Deposited(events, "RTokenPriceEnough") :
        LET stale == <<e[2], e[3], e[4] - dataReservePeriod>> IN
        /\ e[4] > dataReservePeriod
        /\ stale \in DOMAIN hisRTokenPrice
        /\ stale \notin DOMAIN rTokenPrices
        /\ \E other \in RSymbols \ {e[2]} : <<other, stale[2], stale[3]>> \in DOMAIN rTokenPrices

\* ------------------------------------------------------------------- C11
\* C11 as stated: after every accepted submission by reporter r for
\* (symbol, version, p) with p > DataReservePeriod W, the value list of
\* (symbol, version, p - W) and r's record for that key are absent.
C11_PurgeOnEverySubmission ==
    [][ /\ \A e \in Deposited(events', "SubmitRtokenPrice") :
             e[5] > dataReservePeriod
             => /\ <<e[3], e[4], e[5] - dataReservePeriod>> \notin DOMAIN rTokenPrices'
                /\ <<e[2], e[3], e[4], e[5] - dataReservePeriod>> \notin DOMAIN accountRTokenPrices'
        /\ \A e \in Deposited(events', "SubmitFisPrice") :
             e[4] > dataReservePeriod
             => /\ <<e[3], e[4] - dataReservePeriod>> \notin DOMAIN fisPrices'
                /\ <<e[2], e[3], e[4] - dataReservePeriod>> \notin DOMAIN accountFisPrices' ]_vars

\* C11 amended: after every accepted submission by reporter r for
\* (symbol, version, p) that brings the bucket to the threshold count (the
\* Enough event is deposited) with p > W, the value list of
\* (symbol, version, p - W) and r's record for that key are absent.
C11_PurgeOnFinalization ==
    [][ /\ Deposited(events', "RTokenPriceEnough") # {}
             => \A e \in Deposited(events', "SubmitRtokenPrice") :
                  e[5] > dataReservePeriod
                  => /\ <<e[3], e[4], e[5] - dataReservePeriod>> \notin DOMAIN rTokenPrices'
                     /\ <<e[2], e[3], e[4], e[5] - dataReservePeriod>>
                           \notin DOMAIN accountRTokenPrices'
        /\ Deposited(events', "FisPriceEnough") # {}
             => \A e \in Deposited(events', "SubmitFisPrice") :
                  e[4] > dataReservePeriod
                  => /\ <<e[3], e[4] - dataReservePeriod>> \notin DOMAIN fisPrices'
                     /\ <<e[2], e[3], e[4] - dataReservePeriod>> \notin DOMAIN accountFisPrices' ]_vars

\* a finalizing fis submission at period p > W was just made by a reporter
\* whose submission to period p - W had been accepted earlier, and neither
\* that reporter's record nor the value list of period p - W is stored
C11_Witness ==
    /\ Deposited(events, "FisPriceEnough") # {}
    /\ \E e \in Deposited(events, "SubmitFisPrice") :
          /\ e[4] > dataReservePeriod
          /\ <<e[2], "FIS", e[3], e[4] - dataReservePeriod>> \in accepted
          /\ <<e[2], e[3], e[4] - dataReservePeriod>> \notin DOMAIN accountFisPrices
          /\ <<e[3], e[4] - dataReservePeriod>> \notin DOMAIN fisPrices

\* ------------------------------------------------------------------- C12
\* the submissions that can be made for a symbol / to the fis flow, as
\* argument tuples
RCalls(symbol) ==
    {<<origin, symbol, period, price>> : origin \in Origins, period \in Periods, price \in Prices}
FCalls == Origins \X Periods \X Prices

RunR(st, c) == submit_rtoken_price_on(st, c[1], c[2], c[3], c[4])
RunF(st, c) == submit_fis_price_on(st, c[1], c[2], c[3])

\* a and b commute: a1, b1 are the outcomes of a and of b run first, a2 and
\* b2 their outcomes run second (after the other): same results in either
\* order, and the same final storage
Commutes(a1, b1, a2, b2) ==
    a1.ret = a2.ret /\ b1.ret = b2.ret /\ b2.store = a2.store

\* every rtoken submission for a symbol / every fis submission, with its
\* outcome on the current storage
FirstR(symbol) == {[call |-> c, out |-> RunR(RTokenStore, c)] : c \in RCalls(symbol)}
FirstF == {[call |-> c, out |-> RunF(FisStore, c)] : c \in FCalls}

\* every step taken by a submission is the step submit_.._price_on computes
\* from the storage of its own flow, and leaves the other flow's storage and
\* the configuration alone
EffectsAgree ==
    /\ \A origin \in Origins, symbol \in RSymbols, period \in Periods, price \in Prices :
          submit_rtoken_price(origin, symbol, period, price)
          => LET out == submit_rtoken_price_on(RTokenStore, origin, symbol, period, price)
             IN /\ RTokenStore' = out.store
                /\ result'.ret = out.ret
                /\ events' = out.events
                /\ UNCHANGED <<fisStore, config>>
    /\ \A origin \in Origins, period \in Periods, price \in Prices :
          submit_fis_price(origin, period, price)
          => LET out == submit_fis_price_on(FisStore, origin, period, price)
             IN /\ FisStore' = out.store
                /\ result'.ret = out.ret
                /\ events' = out.events
                /\ UNCHANGED <<rtokenStore, config>>

\* C12 as stated: two submissions addressed to distinct BucketKeys (same
\* flow, current version, symbol or period different) give the same results
\* and the same final storage in either order.
C12_DistinctKeysCommute ==
    /\ \A s1 \in RSymbols, s2 \in RSymbols :
          \A a \in FirstR(s1), b \in FirstR(s2) :
             <<s1, a.call[3]>> # <<s2, b.call[3]>>
             => Commutes(a.out, b.out, RunR(b.out.store, a.call), RunR(a.out.store, b.call))
    /\ \A a \in FirstF, b \in FirstF :
          a.call[2] # b.call[2]
          => Commutes(a.out, b.out, RunF(b.out.store, a.call), RunF(a.out.store, b.call))

\* the unordered pairs of different rtoken symbols
SymbolPairs == {<<"RFIS", "RDOT">>}

\* two rtoken submissions for different symbols commute on the current
\* storage
DistinctSymbolsCommute ==
    \A sp \in SymbolPairs :
       \A a \in FirstR(sp[1]), b \in FirstR(sp[2]) :
          Commutes(a.out, b.out, RunR(b.out.store, a.call), RunR(a.out.store, b.call))

\* C12 amended: two submissions addressed to BucketKeys of different symbols
\* (the fis flow counting as a symbol of its own) give the same results and
\* the same final storage in either order.  For two rtoken symbols this is
\* DistinctSymbolsCommute in every state; for an rtoken and a fis submission
\* it is EffectsAgree: each is a function of its own flow's storage and
\* leaves the other's alone.
C12_DistinctSymbolsCommute ==
    []DistinctSymbolsCommute /\ [][EffectsAgree]_vars

\* a state in which a submission for RFIS and one for RDOT each finalize
\* their bucket and each purge a stored list, in either order
C12_Witness ==
    \E a \in RCalls("RFIS"), b \in RCalls("RDOT") :
       LET a1 == RunR(RTokenStore, a)
           b1 == RunR(RTokenStore, b)
           both == RunR(a1.store, b)
       IN /\ Len(a1.events) = 2 /\ Len(b1.events) = 2
          /\ ~(DOMAIN rTokenPrices \subseteq DOMAIN a1.store.prices)
          /\ ~(DOMAIN rTokenPrices \subseteq DOMAIN b1.store.prices)
          /\ both.ret = "Ok"
          /\ both.store.current = [x \in RSymbols |-> 1]

\* ------------------------------------------------------------------- C13
\* the rtoken storage in which symbol holds exactly what the fis storage fst
\* holds, and the events of an rtoken submission for symbol that correspond
\* to the events of a fis submission
ToToken(fst, symbol) ==
    [account |-> [k \in {<<j[1], symbol, j[2], j[3]>> : j \in DOMAIN fst.account}
                    |-> fst.account[<<k[1], k[3], k[4]>>]],
     prices |-> [k \in {<<symbol, j[1], j[2]>> : j \in DOMAIN fst.prices}
                    |-> fst.prices[<<k[2], k[3]>>]],
     current |-> [x \in {symbol : v \in fst.current} |-> CHOOSE v \in fst.current : TRUE],
     his |-> [k \in {<<symbol, j[1], j[2]>> : j \in DOMAIN fst.his}
                    |-> fst.his[<<k[2], k[3]>>]]]
EventsToToken(evs, symbol) ==
    [i \in DOMAIN evs |->
        IF evs[i][1] = "FisPriceEnough"
        THEN RTokenPriceEnough(symbol, evs[i][2], evs[i][3], evs[i][4])
        ELSE SubmitRtokenPrice(evs[i][2], symbol, evs[i][3], evs[i][4], evs[i][5])]

\* the fis storage that holds exactly what the rtoken storage rst holds for
\* symbol
FromToken(rst, symbol) ==
    [account |-> [k \in {<<j[1], j[3], j[4]>> : j \in {i \in DOMAIN rst.account : i[2] = symbol}}
                    |-> rst.account[<<k[1], symbol, k[2], k[3]>>]],
     prices |-> [k \in {<<j[2], j[3]>> : j \in {i \in DOMAIN rst.prices : i[1] = symbol}}
                    |-> rst.prices[<<symbol, k[1], k[2]>>]],
     current |-> {rst.current[x] : x \in DOMAIN rst.current \cap {symbol}},
     his |-> [k \in {<<j[2], j[3]>> : j \in {i \in DOMAIN rst.his : i[1] = symbol}}
                    |-> rst.his[<<symbol, k[1], k[2]>>]]]

\* on the fis storage of the current state, every fis submission does what
\* the rtoken submission with the same arguments does for a symbol that holds
\* the same data: same result, same storage afterwards, same events
FisAsToken ==
    \A symbol \in RSymbols, c \in FCalls :
       LET f == RunF(FisStore, c)
           r == submit_rtoken_price_on(ToToken(FisStore, symbol), c[1], symbol, c[2], c[3])
       IN /\ r.ret = f.ret
          /\ r.store = ToToken(f.store, symbol)
          /\ r.events = EventsToToken(f.events, symbol)

\* and on what the rtoken storage of the current state holds for a symbol,
\* every rtoken submission for that symbol does what the fis submission with
\* the same arguments does on the same data
TokenAsFis ==
    \A symbol \in RSymbols :
       \A c \in RCalls(symbol) :
       LET r == RunR(RTokenStore, c)
           f == submit_fis_price_on(FromToken(RTokenStore, symbol), c[1], c[3], c[4])
       IN /\ f.ret = r.ret
          /\ f.store = FromToken(r.store, symbol)
          /\ r.events = EventsToToken(f.events, symbol)

\* C13: submit_fis_price behaves as submit_rtoken_price does for a symbol of
\* its own (same results, same values finalized, same purges, in both
\* directions and in every reachable state), and a fis submission is a
\* function of the fis storage that leaves the rtoken storage unchanged, and
\* conversely (EffectsAgree).
C13_FisIsTokenFlow ==
    [](FisAsToken /\ TokenAsFis) /\ [][EffectsAgree]_vars

\* a fis finalization at period p > W was just made after the finalization
\* of period p - W, whose list is purged while both historical prices are
\* stored
C13_Witness ==
    \E e \in Deposited(events, "FisPriceEnough") :
       /\ e[3] > dataReservePeriod
       /\ {<<e[2], e[3]>>, <<e[2], e[3] - dataReservePeriod>>} \subseteq DOMAIN hisFisPrice
       /\ DOMAIN fisPrices = {<<e[2], e[3]>>}

\* ------------------------------------------------------------------- C15
\* C15: when an accepted submission brings the value list of its key to the
\* threshold length, that step writes the rank pick m of the list to the
\* current price of the symbol and to the historical price of the key, and
\* deposits the Enough event carrying m before the Submit event.
C15_FinalizationWrites ==
    [][ /\ \A e \in Deposited(events', "SubmitRtokenPrice") :
             LET key == <<e[3], e[4], e[5]>>
                 new == Append(GetOr(rTokenPrices, key, <<>>), e[6])
             IN Len(new) = requestorThreshold
                => \E i \in DOMAIN new :
                      /\ IsRankPick(new[i], new)
                      /\ events' = <<RTokenPriceEnough(e[3], e[4], e[5], new[i]), e>>
                      /\ GetOr(currentRTokenPrice', e[3], 0) = new[i]
                      /\ GetOr(hisRTokenPrice', key, 0) = new[i]
        /\ \A e \in Deposited(events', "SubmitFisPrice") :
             LET key == <<e[3], e[4]>>
                 new == Append(GetOr(fisPrices, key, <<>>), e[5])
             IN Len(new) = requestorThreshold
                => \E i \in DOMAIN new :
                      /\ IsRankPick(new[i], new)
                      /\ events' = <<FisPriceEnough(e[3], e[4], new[i]), e>>
                      /\ currentFisPrice' = {new[i]}
                      /\ GetOr(hisFisPrice', key, 0) = new[i] ]_vars

\* the second of two fis submissions just brought its list to the threshold
\* 2: FisPriceEnough was deposited first, and the current and the historical
\* price hold its price
C15_Witness ==
    /\ Len(events) = 2
    /\ events[1][1] = "FisPriceEnough" /\ events[2][1] = "SubmitFisPrice"
    /\ Len(fisPrices[<<events[1][2], events[1][3]>>]) = 2
    /\ currentFisPrice = {events[1][4]}
    /\ hisFisPrice[<<events[1][2], events[1][3]>>] = events[1][4]

\* ------------------------------------------------------------------- C16
\* C16: the checks of a submission are made in the order origin and
\* authorization, duplicate, positivity, and the first that fails gives the
\* error: a signed account that is no requestor gets MustBeRequestor whatever
\* the price, also when a record of it is stored for the key; a requestor
\* with a record for the key gets PriceRepeated whatever the price, 0
\* included.
C16_CheckOrder ==
    /\ \A symbol \in RSymbols, period \in Periods, price \in Prices :
          /\ submit_rtoken_price_check(Signed(Outsider), symbol, period, price)
                = "MustBeRequestor"
          /\ LET recorded == [RTokenStore EXCEPT !.account =
                                Put(@, <<Outsider, symbol, periodVersion, period>>, 1)]
             IN submit_rtoken_price_on(recorded, Signed(Outsider), symbol, period, price).ret
                   = "MustBeRequestor"
          /\ \A who \in Requestors :
                <<who, symbol, periodVersion, period>> \in DOMAIN accountRTokenPrices
                => submit_rtoken_price_check(Signed(who), symbol, period, price) = "PriceRepeated"
    /\ \A period \in Periods, price \in Prices :
          /\ submit_fis_price_check(Signed(Outsider), period, price) = "MustBeRequestor"
          /\ LET recorded == [FisStore EXCEPT !.account =
                                Put(@, <<Outsider, periodVersion, period>>, 1)]
             IN submit_fis_price_on(recorded, Signed(Outsider), period, price).ret
                   = "MustBeRequestor"
          /\ \A who \in Requestors :
                <<who, periodVersion, period>> \in DOMAIN accountFisPrices
                => submit_fis_price_check(Signed(who), period, price) = "PriceRepeated"

\* a fis submission of a requestor that has a record for the key was just
\* refused as repeated
C16_Witness ==
    /\ result = [call |-> "submit_fis_price", ret |-> "PriceRepeated"]
    /\ \E who \in Requestors, period \in Periods :
          <<who, periodVersion, period>> \in DOMAIN accountFisPrices

\* ------------------------------------------------------------------- C17
\* C17: the purge made by a submission of reporter r for period p removes no
\* record of another reporter: every record another reporter holds for
\* (symbol, version, p - W) is still stored after the step, and that reporter
\* is still refused with PriceRepeated on that key, whether or not the key's
\* value list was removed.
C17_OtherRecordsKept ==
    [][ /\ \A e \in Deposited(events', "SubmitRtokenPrice") :
             \A who \in Accounts \ {e[2]} :
                LET stalePeriod == e[5] - dataReservePeriod
                    k == <<who, e[3], e[4], stalePeriod>>
                IN k \in DOMAIN accountRTokenPrices
                   => /\ k \in DOMAIN accountRTokenPrices'
                      /\ accountRTokenPrices'[k] = accountRTokenPrices[k]
                      /\ \A price \in Prices :
                            (submit_rtoken_price_check(Signed(who), e[3], stalePeriod, price))'
                               = "PriceRepeated"
        /\ \A e \in Deposited(events', "SubmitFisPrice") :
             \A who \in Accounts \ {e[2]} :
                LET stalePeriod == e[4] - dataReservePeriod
                    k == <<who, e[3], stalePeriod>>
                IN k \in DOMAIN accountFisPrices
                   => /\ k \in DOMAIN accountFisPrices'
                      /\ accountFisPrices'[k] = accountFisPrices[k]
                      /\ \A price \in Prices :
                            (submit_fis_price_check(Signed(who), stalePeriod, price))'
                               = "PriceRepeated" ]_vars

\* a finalization at period p > W just removed the value list of
\* (symbol, version, p - W) and the submitter's record, and the record of the
\* other requestor for that key is still stored
C17_Witness ==
    \E e \in Deposited(events, "SubmitRtokenPrice") :
       LET stalePeriod == e[5] - dataReservePeriod IN
       /\ Deposited(events, "RTokenPriceEnough") # {}
       /\ e[5] > dataReservePeriod
       /\ <<e[2], e[3], e[4], stalePeriod>> \in accepted
       /\ <<e[2], e[3], e[4], stalePeriod>> \notin DOMAIN accountRTokenPrices
       /\ <<e[3], e[4], stalePeriod>> \notin DOMAIN rTokenPrices
       /\ \E who \in Requestors \ {e[2]} :
             <<who, e[3], e[4], stalePeriod>> \in DOMAIN accountRTokenPrices

\* ------------------------------------------------------------------- C18
\* the keys of every version-keyed storage map that carry the version v
\* (the version is the last but one component of every key)
KeysOfVersion(f, v) == {k \in DOMAIN f : k[Len(k) - 1] = v}
VersionedMaps ==
    <<accountRTokenPrices, rTokenPrices, hisRTokenPrice,
      accountFisPrices, fisPrices, hisFisPrice>>

\* C18: every submission is filed under the PeriodVersion current at the
\* call; a successful set_period_block_number leaves no list, record or
\* historical price under the new version, so that every requestor is
\* accepted for every symbol and period with a positive price; and no step
\* changes or removes a value list, a per-reporter record or a historical
\* price keyed by a version earlier than the current one.
C18_FreshKeySpace ==
    [][ /\ \A e \in Deposited(events', "SubmitRtokenPrice") :
             /\ e[4] = periodVersion
             /\ <<e[2], e[3], periodVersion, e[5]>> \in DOMAIN accountRTokenPrices'
             /\ <<e[3], periodVersion, e[5]>> \in DOMAIN rTokenPrices'
        /\ \A e \in Deposited(events', "SubmitFisPrice") :
             /\ e[3] = periodVersion
             /\ <<e[2], periodVersion, e[4]>> \in DOMAIN accountFisPrices'
             /\ <<periodVersion, e[4]>> \in DOMAIN fisPrices'
        /\ result' = [call |-> "set_period_block_number", ret |-> "Ok"]
             => /\ \A i \in DOMAIN VersionedMaps :
                      KeysOfVersion(VersionedMaps[i], periodVersion') = {}
                /\ \A who \in Requestors, period \in Periods :
                      /\ (submit_fis_price_check(Signed(who), period, 1))' = "Ok"
                      /\ \A symbol \in RSymbols :
                            (submit_rtoken_price_check(Signed(who), symbol, period, 1))' = "Ok"
        /\ \/ UNCHANGED VersionedMaps
           \/ \A i \in DOMAIN VersionedMaps :
                 \A v \in 0 .. (periodVersion' - 1) :
                    \A k \in KeysOfVersion(VersionedMaps[i], v) :
                       /\ k \in DOMAIN VersionedMaps[i]'
                       /\ VersionedMaps[i]'[k] = VersionedMaps[i][k] ]_vars

\* after the version was advanced, a requestor that had submitted for a
\* symbol and period under version 0 was just accepted for the same symbol
\* and period under version 1, in a new list of length 1, next to the list of
\* version 0
C18_Witness ==
    \E e \in Deposited(events, "SubmitRtokenPrice") :
       /\ e[4] = 1
       /\ <<e[2], e[3], 0, e[5]>> \in accepted
       /\ <<e[3], 0, e[5]>> \in DOMAIN rTokenPrices
       /\ rTokenPrices[<<e[3], 1, e[5]>>] = <<e[6]>>

\* ------------------------------------------------------------------- C19
\* C19: no call returns PriceZero, and every call that returns an error
\* leaves the storage as it was: no submission is refused after its list and
\* record were written.
C19_PriceZeroUnreachable ==
    [][ /\ result'.ret # "PriceZero"
        /\ result'.ret # "Ok" => UNCHANGED storage ]_vars

\* the threshold comparison just succeeded on a fis list of two different
\* prices submitted in descending order, and the smaller price, which is
\* positive, was taken
C19_Witness ==
    \E e \in Deposited(events, "FisPriceEnough") :
       /\ fisPrices[<<e[2], e[3]>>] = <<2, 1>>
       /\ e[4] = 1
       /\ result.ret = "Ok"

\* ------------------------------------------------------------------- C20
\* every historical price is > 0, and a current price is present exactly for
\* the symbols (the fis flow) that have a historical price
PricesConsistent ==
    /\ \A k \in DOMAIN hisRTokenPrice : hisRTokenPrice[k] > 0
    /\ \A k \in DOMAIN hisFisPrice : hisFisPrice[k] > 0
    /\ DOMAIN currentRTokenPrice = {k[1] : k \in DOMAIN hisRTokenPrice}
    /\ currentFisPrice = {} <=> DOMAIN hisFisPrice = {}
    /\ \A symbol \in DOMAIN currentRTokenPrice :
          \E k \in DOMAIN hisRTokenPrice :
             k[1] = symbol /\ hisRTokenPrice[k] = currentRTokenPrice[symbol]
    /\ currentFisPrice \subseteq {hisFisPrice[k] : k \in DOMAIN hisFisPrice}

\* C20: in every reachable state PricesConsistent holds; the current and
\* historical prices change on finalizing steps only, and a finalizing step
\* for a key writes one price, > 0 and an element of the values submitted to
\* the key, to the historical price of the key and to the current price of
\* its symbol, and leaves every other current and historical price as it was:
\* the current price of a symbol is the historical price of the bucket of
\* that symbol finalized last.
C20_CanonicalHistorical ==
    /\ PricesConsistent
    /\ [][ /\ UNCHANGED <<currentRTokenPrice, hisRTokenPrice, currentFisPrice, hisFisPrice>>
              \/ PricesConsistent'
           /\ Deposited(events', "RTokenPriceEnough") = {}
                => UNCHANGED <<currentRTokenPrice, hisRTokenPrice>>
           /\ Deposited(events', "FisPriceEnough") = {}
                => UNCHANGED <<currentFisPrice, hisFisPrice>>
           /\ \A e \in Deposited(events', "RTokenPriceEnough") :
                LET key == <<e[2], e[3], e[4]>> IN
                /\ e[5] > 0
                /\ \E i \in DOMAIN rTokenPrices'[key] : rTokenPrices'[key][i] = e[5]
                /\ DOMAIN hisRTokenPrice' = DOMAIN hisRTokenPrice \cup {key}
                /\ hisRTokenPrice'[key] = e[5]
                /\ \A k \in DOMAIN hisRTokenPrice \ {key} :
                      hisRTokenPrice'[k] = hisRTokenPrice[k]
                /\ DOMAIN currentRTokenPrice' = DOMAIN currentRTokenPrice \cup {e[2]}
                /\ currentRTokenPrice'[e[2]] = e[5]
                /\ \A x \in DOMAIN currentRTokenPrice \ {e[2]} :
                      currentRTokenPrice'[x] = currentRTokenPrice[x]
           /\ \A e \in Deposited(events', "FisPriceEnough") :
                LET key == <<e[2], e[3]>> IN
                /\ e[4] > 0
                /\ \E i \in DOMAIN fisPrices'[key] : fisPrices'[key][i] = e[4]
                /\ DOMAIN hisFisPrice' = DOMAIN hisFisPrice \cup {key}
                /\ hisFisPrice'[key] = e[4]
                /\ \A k \in DOMAIN hisFisPrice \ {key} : hisFisPrice'[k] = hisFisPrice[k]
                /\ currentFisPrice' = {e[4]} ]_vars

\* a second bucket of a symbol was just finalized at a price different from
\* the historical price of the first: the current price is that of the
\* second
C20_Witness ==
    \E e \in Deposited(events, "RTokenPriceEnough") :
       /\ currentRTokenPrice[e[2]] = e[5]
       /\ hisRTokenPrice[<<e[2], e[3], e[4]>>] = e[5]
       /\ \E k \in DOMAIN hisRTokenPrice : k[1] = e[2] /\ hisRTokenPrice[k] # e[5]

====
